---- MODULE Spec2Model ----
(***************************************************************************)
(* anker_to_influx.py: a collection loop that fetches the sites of an      *)
(* Anker Solix account, flattens every provisioned site into a record,     *)
(* writes one anker_power point per record, derives the daily statistics   *)
(* from three integral queries and writes one anker_daily_stats point.     *)
(*                                                                         *)
(* Python mappings are functions whose DOMAIN is the set of present keys.  *)
(* A number the upstream API serves is a decimal text, [text |-> n];       *)
(* float() turns it into the number n.  Floating point values are exact    *)
(* rationals here: whole numbers are integers, a quotient is the reduced   *)
(* pair <<numerator, denominator>>.                                        *)
(***************************************************************************)
EXTENDS Integers, Sequences, FiniteSets, TLC

VARIABLES
    iterations,   \* main: iterations (completed passes of the while loop)
    pc,           \* position of the single worker
    now,          \* wall clock, seconds
    sleeps,       \* number of time.sleep(delay) calls made
    raised,       \* exception of the current iteration ("none" when none)
    sessions,     \* aiohttp ClientSession objects entered and not yet exited
    clients,      \* InfluxDBClient objects constructed and not yet closed
    api_sites,    \* fetch_anker_data: anker_api.sites.values()
    site_idx,     \* fetch_anker_data: position of the for loop over the sites
    power_data,   \* fetch_anker_data: power_data
    data,         \* write_to_influx: data
    write_idx,    \* write_to_influx: position of the for loop over data
    results,      \* calculate_daily_stats: the results of its three queries
    daily_stats,  \* write_to_influx: daily_stats
    written,      \* points written by the current write_to_influx call
    store,        \* the bucket: series keys (measurement, site_name, time)
    input,        \* argument of the function applied on its own
    output        \* its result

vars == <<iterations, pc, now, sleeps, raised, sessions, clients, api_sites,
          site_idx, power_data, data, write_idx, results, daily_stats, written,
          store, input, output>>

loopVars == <<iterations, pc, sleeps, raised, sessions, clients, api_sites,
              site_idx, power_data, data, write_idx, results, daily_stats,
              written, store>>

-----------------------------------------------------------------------------
(* Program constants and bounds *)

max_iterations == 6
delay == 9

\* sites of the account
NumSites == 2
\* failures of client.write_api() in one run
MaxLeaks == 1
\* latest clock value a function applied on its own is started at
MaxNow == 1
\* latest instant a well-formed 'updated_time' names, parse_timestamp on its own
MaxInstant == 30

-----------------------------------------------------------------------------
(* Values *)

None == [none |-> TRUE]
Unset == [unset |-> TRUE]
Skip == [skip |-> TRUE]
Exc(kind) == [exception |-> kind]
IsExc(v) == "exception" \in DOMAIN v

Text(n) == [text |-> n]

\* float(x): a decimal text or a number becomes the number
Float(x) == IF "text" \in DOMAIN x THEN x.text ELSE x.float

\* the literal 0.0 given as a default
Zero == [float |-> 0]

RECURSIVE GCD(_, _)
GCD(a, b) == IF b = 0 THEN a ELSE GCD(b, a % b)

Abs(n) == IF n < 0 THEN -n ELSE n

\* a / b * 100 as an exact reduced quotient with a positive denominator;
\* dividing by zero raises ZeroDivisionError
Percent(a, b) ==
    IF b = 0 THEN Exc("ZeroDivisionError")
    ELSE LET n == IF b < 0 THEN -(a * 100) ELSE a * 100
             d == Abs(b)
             g == GCD(Abs(n), d)
         IN  [quotient |-> <<n \div g, d \div g>>]

ZeroPercent == [quotient |-> <<0, 1>>]

-----------------------------------------------------------------------------
(* parse_timestamp *)

\* datetime.strptime(timestamp_str, '%Y-%m-%d %H:%M:%S'): a str in the format
\* gives its datetime, any other str raises ValueError, a value that is no
\* str raises TypeError.
strptime(timestamp_str) ==
    IF timestamp_str.type # "str" THEN Exc("TypeError")
    ELSE IF ~timestamp_str.format THEN Exc("ValueError")
    ELSE [instant |-> timestamp_str.instant]

\* [seconds |-> n] for a returned n, or the exception that leaves the function
parse_timestamp(timestamp_str, clock) ==
    LET dt == strptime(timestamp_str)
    IN  IF ~IsExc(dt) THEN [seconds |-> dt.instant]
        ELSE IF dt.exception = "ValueError" THEN [seconds |-> clock]
        ELSE dt

-----------------------------------------------------------------------------
(* fetch_anker_data: the body of the loop over the sites *)

Get(d, k) == IF k \in DOMAIN d THEN d[k] ELSE Zero

\* The body of `if 'solarbank_info' in site:`: the exception of the first
\* failing subscript or call, else the record appended to power_data.
FlattenSite(site, clock) ==
    LET info == site["solarbank_info"]
        grid_info == IF "grid_info" \in DOMAIN site THEN site["grid_info"] ELSE <<>>
    IN  IF "solarbank_list" \notin DOMAIN info THEN Exc("KeyError")
        ELSE IF info["solarbank_list"] # <<>>
                /\ {"charging_power", "battery_power"}
                       \ DOMAIN info["solarbank_list"][1] # {}
        THEN Exc("KeyError")
        ELSE IF "updated_time" \notin DOMAIN info THEN Exc("KeyError")
        ELSE
        LET banks == info["solarbank_list"]
            timestamp == parse_timestamp(info["updated_time"], clock)
        IN  IF IsExc(timestamp) THEN timestamp
            ELSE IF "site_info" \notin DOMAIN site
                    \/ "site_name" \notin DOMAIN site["site_info"]
            THEN Exc("KeyError")
            ELSE IF "total_photovoltaic_power" \notin DOMAIN info
            THEN Exc("KeyError")
            ELSE
            [site_name |-> site["site_info"]["site_name"],
             total_photovoltaic_power |-> Float(info["total_photovoltaic_power"]),
             solar_power_1 |-> Float(Get(info, "solar_power_1")),
             solar_power_2 |-> Float(Get(info, "solar_power_2")),
             solar_power_3 |-> Float(Get(info, "solar_power_3")),
             solar_power_4 |-> Float(Get(info, "solar_power_4")),
             battery_percentage |->
                 IF banks # <<>> THEN Float(banks[1]["battery_power"]) ELSE 0,
             battery_charge_power |->
                 IF banks # <<>> THEN Float(banks[1]["charging_power"]) ELSE 0,
             home_load_power |-> Float(Get(site, "home_load_power")),
             grid_to_home_power |-> Float(Get(grid_info, "grid_to_home_power")),
             photovoltaic_to_grid_power |->
                 Float(Get(grid_info, "photovoltaic_to_grid_power")),
             to_home_load |-> Float(Get(info, "to_home_load")),
             ac_power |-> Float(Get(info, "ac_power")),
             timestamp |-> timestamp.seconds]

\* the guard dropped: site['solarbank_info'] is subscripted on every site
NormalizeSiteUnguarded(site, clock) ==
    IF "solarbank_info" \notin DOMAIN site THEN Exc("KeyError")
    ELSE FlattenSite(site, clock)

\* One pass of `for site in anker_api.sites.values()`: Skip when the site has
\* no 'solarbank_info'.
NormalizeSite(site, clock) ==
    IF "solarbank_info" \notin DOMAIN site THEN Skip
    ELSE FlattenSite(site, clock)

-----------------------------------------------------------------------------
(* calculate_daily_stats *)

\* What query_api.query returns or does: a list of tables, each holding a
\* list of record values, or an exception.
QueryRaises == Exc("ApiException")
NoTables == [tables |-> <<>>]
TableOf(values) == [tables |-> <<[records |-> values]>>]

\* float(result[0].records[0].get_value() if result else 0.0)
Extract(result) ==
    IF result.tables = <<>> THEN [value |-> 0]
    ELSE IF result.tables[1].records = <<>> THEN Exc("IndexError")
    ELSE [value |-> result.tables[1].records[1]]

\* the guards written >= 0: a zero integral is divided by
DeriveMetricsZeroDivides(daily_consumption, daily_generation, grid_import) ==
    LET self_consumed == daily_consumption - grid_import
    IN  [autarky |-> IF daily_consumption >= 0
                     THEN Percent(self_consumed, daily_consumption)
                     ELSE ZeroPercent,
         self_consumption |-> IF daily_generation >= 0
                              THEN Percent(self_consumed, daily_generation)
                              ELSE ZeroPercent]

\* self_consumed, autarky and self_consumption
DeriveMetrics(daily_consumption, daily_generation, grid_import) ==
    LET self_consumed == daily_consumption - grid_import
    IN  [autarky |-> IF daily_consumption > 0
                     THEN Percent(self_consumed, daily_consumption)
                     ELSE ZeroPercent,
         self_consumption |-> IF daily_generation > 0
                              THEN Percent(self_consumed, daily_generation)
                              ELSE ZeroPercent]

\* the dictionary returned, or None from the except clause
calculate_daily_stats(consumption_result, generation_result, grid_import_result) ==
    IF IsExc(consumption_result) \/ IsExc(generation_result)
       \/ IsExc(grid_import_result)
    THEN None
    ELSE IF IsExc(Extract(consumption_result)) \/ IsExc(Extract(generation_result))
            \/ IsExc(Extract(grid_import_result))
    THEN None
    ELSE
    LET daily_consumption == Extract(consumption_result).value
        daily_generation == Extract(generation_result).value
        grid_import == Extract(grid_import_result).value
        metrics == DeriveMetrics(daily_consumption, daily_generation, grid_import)
    IN  IF IsExc(metrics.autarky) \/ IsExc(metrics.self_consumption) THEN None
        ELSE [daily_consumption |-> daily_consumption,
              daily_generation |-> daily_generation,
              autarky |-> metrics.autarky.quotient,
              self_consumption |-> metrics.self_consumption.quotient]

-----------------------------------------------------------------------------
(* What the remote API and the store can serve *)

\* a reading with every key present
Reading ==
    [total_photovoltaic_power |-> 800, solar_power_1 |-> 210,
     solar_power_2 |-> 220, solar_power_3 |-> 230, solar_power_4 |-> 140,
     to_home_load |-> 350, ac_power |-> 360, charging_power |-> 120,
     battery_power |-> 77, home_load_power |-> 450,
     grid_to_home_power |-> 100, photovoltaic_to_grid_power |-> 30,
     updated_time |-> 1000]

Served(keys) == [k \in keys |-> Text(Reading[k])]

StrTime(t) == [type |-> "str", format |-> TRUE, instant |-> t]
MalformedTime == [type |-> "str", format |-> FALSE]
NoStrTime == [type |-> "NoneType"]

InfoPowerKeys == {"total_photovoltaic_power", "solar_power_1", "solar_power_2",
                  "solar_power_3", "solar_power_4", "to_home_load", "ac_power"}
BankKeys == {"charging_power", "battery_power"}
GridKeys == {"grid_to_home_power", "photovoltaic_to_grid_power"}

SolarbankInfo(keys, banks, time) ==
    [k \in keys \cup {"solarbank_list", "updated_time"} |->
        IF k = "solarbank_list" THEN banks
        ELSE IF k = "updated_time" THEN time
        ELSE Text(Reading[k])]

\* a site mapping: `top` is the set of its optional top-level keys
Site(name, top, info, grid) ==
    [k \in top \cup {"site_info"} |->
        IF k = "site_info" THEN [site_name |-> name]
        ELSE IF k = "solarbank_info" THEN info
        ELSE IF k = "grid_info" THEN grid
        ELSE Text(Reading[k])]

BankLists == {<<>>} \cup {<<Served(K)>> : K \in SUBSET BankKeys}

\* every provisioned site: each subset of the power keys absent
ProvisionedSites ==
    { Site(1, top \cup {"solarbank_info"}, SolarbankInfo(keys, banks, time),
           Served(grid)) :
        top \in SUBSET {"grid_info", "home_load_power"},
        keys \in SUBSET InfoPowerKeys,
        banks \in BankLists,
        time \in {StrTime(Reading.updated_time), MalformedTime, NoStrTime},
        grid \in SUBSET GridKeys }

Integrals == {-400, 0, 400, 1000, 1200}

QueryOutcomes ==
    {QueryRaises, NoTables, TableOf(<<>>)}
        \cup {TableOf(<<v>>) : v \in Integrals}

-----------------------------------------------------------------------------
(* The collection loop: inputs *)

\* what one site of the account can look like when a cycle fetches it
LoopKinds == {"unprovisioned", "full", "broken"}

SiteOfKind(name, kind) ==
    IF kind = "unprovisioned"
    THEN Site(name, {"home_load_power"}, <<>>, <<>>)
    ELSE Site(name, {"solarbank_info", "grid_info", "home_load_power"},
              SolarbankInfo(IF kind = "broken"
                            THEN InfoPowerKeys \ {"total_photovoltaic_power"}
                            ELSE InfoPowerKeys,
                            <<Served(BankKeys)>>,
                            StrTime(Reading.updated_time)),
              Served(GridKeys))

\* anker_api.sites.values() after update_sites
UpstreamSites ==
    { [i \in 1..NumSites |-> SiteOfKind(i, kinds[i])] :
        kinds \in [1..NumSites -> LoopKinds] }

\* what a query of the collection loop can yield
LoopOutcomes == {QueryRaises, NoTables, TableOf(<<>>), TableOf(<<1000>>)}

\* the series key of a point: measurement, tag and time
PointKey(measurement, site_data) ==
    [measurement |-> measurement, site_name |-> site_data.site_name,
     time |-> site_data.timestamp]

RawPoint(site_data) == PointKey("anker_power", site_data)

\* the statistics stamped with the time of their computation
StatsPointAtNow(site_data) ==
    [measurement |-> "anker_daily_stats", site_name |-> site_data.site_name,
     time |-> now]

StatsPoint(site_data) == PointKey("anker_daily_stats", site_data)

-----------------------------------------------------------------------------
(* The collection loop: actions *)

fetchLocals == <<api_sites, site_idx, power_data>>
writeLocals == <<data, write_idx, results, daily_stats, written>>

\* while iterations < max_iterations: try:
LoopTest ==
    /\ pc = "while"
    /\ iterations < max_iterations
    /\ pc' = "fetch"
    /\ raised' = "none"
    /\ UNCHANGED <<iterations, now, sleeps, sessions, clients, fetchLocals,
                   writeLocals, store, input, output>>

\* async with ClientSession() as web_session: anker_api = AnkerSolixApi(...)
OpenSession ==
    /\ pc = "fetch"
    /\ sessions' = sessions + 1
    /\ pc' = "update"
    /\ UNCHANGED <<iterations, now, sleeps, raised, clients, fetchLocals,
                   writeLocals, store, input, output>>

\* await anker_api.update_sites(); power_data = []
UpdateSites ==
    /\ pc = "update"
    /\ \/ /\ api_sites' \in UpstreamSites
          /\ site_idx' = 1
          /\ power_data' = <<>>
          /\ pc' = "site"
          /\ UNCHANGED <<raised, sessions>>
       \/ /\ raised' = "ClientError"
          /\ sessions' = sessions - 1
          /\ pc' = "except"
          /\ UNCHANGED fetchLocals
    /\ UNCHANGED <<iterations, now, sleeps, clients, writeLocals, store,
                   input, output>>

\* for site in anker_api.sites.values(): ... power_data.append(data)
FetchSite ==
    /\ pc = "site"
    /\ site_idx <= Len(api_sites)
    /\ LET result == NormalizeSite(api_sites[site_idx], now)
       IN  IF IsExc(result)
           THEN /\ raised' = result.exception
                /\ sessions' = sessions - 1
                /\ pc' = "except"
                /\ api_sites' = <<>>
                /\ site_idx' = 0
                /\ power_data' = <<>>
           ELSE /\ power_data' = IF "skip" \in DOMAIN result THEN power_data
                                 ELSE Append(power_data, result)
                /\ site_idx' = site_idx + 1
                /\ UNCHANGED <<raised, sessions, pc, api_sites>>
    /\ UNCHANGED <<iterations, now, sleeps, clients, writeLocals, store,
                   input, output>>

\* return power_data and the session's exit; __main__: data = ...
FetchReturn ==
    /\ pc = "site"
    /\ site_idx > Len(api_sites)
    /\ sessions' = sessions - 1
    /\ data' = power_data
    /\ pc' = "branch"
    /\ api_sites' = <<>>
    /\ site_idx' = 0
    /\ power_data' = <<>>
    /\ UNCHANGED <<iterations, now, sleeps, raised, clients, write_idx,
                   results, daily_stats, written, store, input, output>>

\* if data: write_to_influx(data) else: print("No data received ...")
Branch ==
    /\ pc = "branch"
    /\ pc' = IF data # <<>> THEN "client" ELSE "finally"
    /\ UNCHANGED <<iterations, now, sleeps, raised, sessions, clients,
                   fetchLocals, writeLocals, store, input, output>>

\* client = InfluxDBClient(...)
OpenClient ==
    /\ pc = "client"
    /\ clients' = clients + 1
    /\ write_idx' = 1
    /\ results' = <<>>
    /\ daily_stats' = Unset
    /\ written' = {}
    /\ pc' = "write_api"
    /\ UNCHANGED <<iterations, now, sleeps, raised, sessions, fetchLocals,
                   data, store, input, output>>

\* write_api = client.write_api(write_options=SYNCHRONOUS), before the try
CreateWriteApi ==
    /\ pc = "write_api"
    /\ \/ /\ pc' = "raw"
          /\ UNCHANGED <<raised, writeLocals>>
       \/ /\ clients <= MaxLeaks
          /\ raised' = "WriteApiError"
          /\ pc' = "except"
          /\ data' = <<>>
          /\ write_idx' = 0
          /\ results' = <<>>
          /\ daily_stats' = Unset
          /\ written' = {}
    /\ UNCHANGED <<iterations, now, sleeps, sessions, clients, fetchLocals,
                   store, input, output>>

\* a failed write logged inside the loop over data, which then goes on
WriteRawGoesOn ==
    /\ pc = "raw"
    /\ \/ /\ store' = store \cup {RawPoint(data[write_idx])}
          /\ written' = written \cup {RawPoint(data[write_idx])}
          /\ UNCHANGED raised
       \/ /\ raised' = "WriteError"
          /\ UNCHANGED <<store, written>>
    /\ pc' = "calc"
    /\ UNCHANGED <<iterations, now, sleeps, sessions, clients, fetchLocals,
                   data, write_idx, results, daily_stats, input, output>>

\* write_api.write(record=point) of the anker_power point
WriteRaw ==
    /\ pc = "raw"
    /\ \/ /\ store' = store \cup {RawPoint(data[write_idx])}
          /\ written' = written \cup {RawPoint(data[write_idx])}
          /\ pc' = "calc"
          /\ UNCHANGED raised
       \/ /\ raised' = "WriteError"
          /\ pc' = "close"
          /\ UNCHANGED <<store, written>>
    /\ UNCHANGED <<iterations, now, sleeps, sessions, clients, fetchLocals,
                   data, write_idx, results, daily_stats, input, output>>

\* calculate_daily_stats: the three query_api.query calls of the try block
\* (what follows a raising query is never looked at)
RunQueries ==
    /\ pc = "calc"
    /\ results' \in LoopOutcomes \X LoopOutcomes \X LoopOutcomes
    /\ pc' = "derive"
    /\ UNCHANGED <<iterations, now, sleeps, raised, sessions, clients,
                   fetchLocals, data, write_idx, daily_stats, written, store,
                   input, output>>

\* no except clause: a raising query leaves write_to_influx
DeriveStatsUncaught ==
    /\ pc = "derive"
    /\ IF \E k \in 1..3 : IsExc(results[k])
       THEN /\ raised' = "ApiException"
            /\ pc' = "close"
            /\ UNCHANGED <<daily_stats, write_idx>>
       ELSE /\ daily_stats' =
                  calculate_daily_stats(results[1], results[2], results[3])
            /\ IF daily_stats' = None
               THEN /\ write_idx' = write_idx + 1
                    /\ pc' = IF write_idx < Len(data) THEN "raw" ELSE "close"
               ELSE /\ pc' = "stats"
                    /\ UNCHANGED write_idx
            /\ UNCHANGED raised
    /\ UNCHANGED <<iterations, now, sleeps, sessions, clients, fetchLocals,
                   data, results, written, store, input, output>>

\* calculate_daily_stats: the values, the metrics, the return or the except
\* clause; write_to_influx: daily_stats = ...; if daily_stats:
DeriveStats ==
    /\ pc = "derive"
    /\ daily_stats' = calculate_daily_stats(results[1], results[2], results[3])
    /\ IF daily_stats' = None
       THEN /\ write_idx' = write_idx + 1
            /\ pc' = IF write_idx < Len(data) THEN "raw" ELSE "close"
       ELSE /\ pc' = "stats"
            /\ UNCHANGED write_idx
    /\ UNCHANGED <<iterations, now, sleeps, raised, sessions, clients,
                   fetchLocals, data, results, written, store, input, output>>

\* write_api.write(record=stats_point) of the anker_daily_stats point
WriteStats ==
    /\ pc = "stats"
    /\ \/ /\ store' = store \cup {StatsPoint(data[write_idx])}
          /\ written' = written \cup {StatsPoint(data[write_idx])}
          /\ write_idx' = write_idx + 1
          /\ pc' = IF write_idx < Len(data) THEN "raw" ELSE "close"
          /\ UNCHANGED raised
       \/ /\ raised' = "WriteError"
          /\ pc' = "close"
          /\ UNCHANGED <<store, written, write_idx>>
    /\ UNCHANGED <<iterations, now, sleeps, sessions, clients, fetchLocals,
                   data, results, daily_stats, input, output>>

\* finally: client.close(), then the return or the exception on its way out
CloseClient ==
    /\ pc = "close"
    /\ clients' = clients - 1
    /\ pc' = IF raised = "none" THEN "finally" ELSE "except"
    /\ data' = <<>>
    /\ write_idx' = 0
    /\ results' = <<>>
    /\ daily_stats' = Unset
    /\ written' = {}
    /\ UNCHANGED <<iterations, now, sleeps, raised, sessions, fetchLocals,
                   store, input, output>>

\* no handler: the exception ends the process
ExceptUncaught ==
    /\ pc = "except"
    /\ pc' = "done"
    /\ UNCHANGED <<iterations, now, sleeps, raised, sessions, clients,
                   fetchLocals, writeLocals, store, input, output>>

\* except Exception as error: print(...)
Except ==
    /\ pc = "except"
    /\ pc' = "finally"
    /\ UNCHANGED <<iterations, now, sleeps, raised, sessions, clients,
                   fetchLocals, writeLocals, store, input, output>>

\* finally: iterations += 1; if iterations < max_iterations:
Finally ==
    /\ pc = "finally"
    /\ iterations' = iterations + 1
    /\ pc' = IF iterations + 1 < max_iterations THEN "sleep" ELSE "while"
    /\ UNCHANGED <<now, sleeps, raised, sessions, clients, fetchLocals,
                   writeLocals, store, input, output>>

\* time.sleep(delay)
Sleep ==
    /\ pc = "sleep"
    /\ now' = now + delay
    /\ sleeps' = sleeps + 1
    /\ pc' = "while"
    /\ UNCHANGED <<iterations, raised, sessions, clients, fetchLocals,
                   writeLocals, store, input, output>>

\* the loop's exit: print("Completed ...")
Finish ==
    /\ pc = "while"
    /\ iterations >= max_iterations
    /\ pc' = "done"
    /\ UNCHANGED <<iterations, now, sleeps, raised, sessions, clients,
                   fetchLocals, writeLocals, store, input, output>>

LoopInit ==
    /\ iterations = 0
    /\ pc = "while"
    /\ sleeps = 0
    /\ raised = "none"
    /\ sessions = 0
    /\ clients = 0
    /\ api_sites = <<>>
    /\ site_idx = 0
    /\ power_data = <<>>
    /\ data = <<>>
    /\ write_idx = 0
    /\ results = <<>>
    /\ daily_stats = Unset
    /\ written = {}
    /\ store = {}

Init ==
    /\ LoopInit
    /\ now = 0
    /\ input = Unset
    /\ output = Unset

Next ==
    \/ LoopTest
    \/ OpenSession
    \/ UpdateSites
    \/ FetchSite
    \/ FetchReturn
    \/ Branch
    \/ OpenClient
    \/ CreateWriteApi
    \/ WriteRaw
    \/ RunQueries
    \/ DeriveStats
    \/ WriteStats
    \/ CloseClient
    \/ Except
    \/ Finally
    \/ Sleep
    \/ Finish

Spec == Init /\ [][Next]_vars

\* the worker is never suspended for ever: every step that can be taken is
FairSpec == Spec /\ WF_vars(Next)

-----------------------------------------------------------------------------
(* The functions applied on their own *)

\* fetch_anker_data's loop body on one site
InitNormalize ==
    /\ LoopInit
    /\ now \in 0..MaxNow
    /\ input \in ProvisionedSites \cup {Site(1, {}, <<>>, <<>>)}
    /\ output = Unset

ApplyNormalize ==
    /\ output = Unset
    /\ output' = NormalizeSite(input, now)
    /\ UNCHANGED <<loopVars, now, input>>

NextNormalize == ApplyNormalize

SpecNormalize == InitNormalize /\ [][NextNormalize]_vars

\* calculate_daily_stats on the outcomes of its three queries
InitStats ==
    /\ LoopInit
    /\ now = 0
    /\ input \in QueryOutcomes \X QueryOutcomes \X QueryOutcomes
    /\ output = Unset

ApplyStats ==
    /\ output = Unset
    /\ output' = calculate_daily_stats(input[1], input[2], input[3])
    /\ UNCHANGED <<loopVars, now, input>>

NextStats == ApplyStats

SpecStats == InitStats /\ [][NextStats]_vars

\* parse_timestamp on one value of 'updated_time'
InitTimestamp ==
    /\ LoopInit
    /\ now \in 0..MaxNow
    /\ input \in {StrTime(t) : t \in 0..MaxInstant} \cup {MalformedTime, NoStrTime}
    /\ output = Unset

ApplyTimestamp ==
    /\ output = Unset
    /\ output' = parse_timestamp(input, now)
    /\ UNCHANGED <<loopVars, now, input>>

NextTimestamp == ApplyTimestamp

SpecTimestamp == InitTimestamp /\ [][NextTimestamp]_vars

-----------------------------------------------------------------------------
(* Properties *)

HasSolarbank(site) == "solarbank_info" \in DOMAIN site

Names(records) == [i \in 1..Len(records) |-> records[i].site_name]

ProvisionedNames(sites) ==
    LET provisioned == SelectSeq(sites, HasSolarbank)
    IN  [i \in 1..Len(provisioned) |-> provisioned[i]["site_info"]["site_name"]]

PointsOf(records) ==
    {RawPoint(records[i]) : i \in 1..Len(records)}
        \cup {StatsPoint(records[i]) : i \in 1..Len(records)}

\* C1, cycle isolation: whichever iterations raise during the fetch or the
\* write, the loop reaches its end, and it ends only after exactly
\* max_iterations iterations: a caught exception leads to the finally clause,
\* which counts the iteration, and nothing ends the loop earlier or later.
C1_CycleIsolation ==
    /\ <>(pc = "done")
    /\ [](iterations <= max_iterations)
    /\ [](pc = "done" => iterations = max_iterations)
    /\ [][pc = "except" => (pc' = "finally" /\ iterations' = iterations)]_vars
    /\ [][pc = "finally" => iterations' = iterations + 1]_vars
    /\ [][pc' = "done" => iterations = max_iterations]_vars

\* the loop has ended: its last iteration failed in the fetch, an earlier
\* one failed in write_to_influx (its client was never closed), another wrote
C1_Witness ==
    pc = "done" /\ raised = "KeyError" /\ clients > 0 /\ store # {}

\* C2, missing-site skip: a site without 'solarbank_info' adds no record and
\* raises nothing, the loop goes on to the next site; the records collected
\* are those of the provisioned sites passed so far, in order, wherever the
\* skipped sites stand; only a provisioned site can make the fetch fail; the
\* list returned is the list collected.
C2_MissingSiteSkip ==
    /\ [](pc = "site" =>
            Names(power_data)
                = ProvisionedNames(SubSeq(api_sites, 1, site_idx - 1)))
    /\ [][(pc = "site" /\ site_idx <= Len(api_sites)
           /\ ~HasSolarbank(api_sites[site_idx]))
          => (/\ power_data' = power_data
              /\ raised' = raised
              /\ sessions' = sessions
              /\ pc' = "site"
              /\ site_idx' = site_idx + 1)]_vars
    /\ [][(pc = "site" /\ pc' = "except") => HasSolarbank(api_sites[site_idx])]_vars
    /\ [][(pc = "site" /\ pc' = "branch") => data' = power_data]_vars

\* the loop is over, the first site was skipped and the last one gave a record
C2_Witness ==
    /\ pc = "site"
    /\ site_idx > Len(api_sites)
    /\ ~HasSolarbank(api_sites[1])
    /\ HasSolarbank(api_sites[Len(api_sites)])
    /\ power_data # <<>>
    /\ power_data[Len(power_data)].site_name = Len(api_sites)

\* where a field of the record comes from upstream
UpstreamOf(site, field) ==
    LET info == site["solarbank_info"]
        banks == info["solarbank_list"]
        from(d, k) == IF k \in DOMAIN d THEN <<d[k].text>> ELSE <<>>
    IN  CASE field = "battery_percentage" ->
                 IF banks = <<>> THEN <<>> ELSE from(banks[1], "battery_power")
          [] field = "battery_charge_power" ->
                 IF banks = <<>> THEN <<>> ELSE from(banks[1], "charging_power")
          [] field = "home_load_power" -> from(site, field)
          [] field \in GridKeys ->
                 IF "grid_info" \in DOMAIN site THEN from(site["grid_info"], field)
                 ELSE <<>>
          [] OTHER -> from(info, field)

PowerFields ==
    InfoPowerKeys \cup GridKeys
        \cup {"battery_percentage", "battery_charge_power", "home_load_power"}

\* C3, normalization totality: for a site with 'solarbank_info' (and a text
\* as its 'updated_time'), whichever power fields are absent, a record is
\* produced, holding 0.0 for each absent field and the upstream value for
\* each present one.
C3_NormalizationTotal ==
    (/\ output # Unset
     /\ HasSolarbank(input)
     /\ input["solarbank_info"]["updated_time"].type = "str")
    => /\ "site_name" \in DOMAIN output
       /\ \A f \in PowerFields :
             output[f] = IF UpstreamOf(input, f) = <<>> THEN 0
                         ELSE UpstreamOf(input, f)[1]

Yields(result) ==
    /\ ~IsExc(result)
    /\ result.tables # <<>> => result.tables[1].records # <<>>

ValueOf(result) ==
    IF result.tables = <<>> THEN 0 ELSE result.tables[1].records[1]

\* C4, derived statistics: when each query yields a value (or no table, 0.0),
\* a dictionary is returned for every input, zero and negative ones included:
\* autarky * daily_consumption = (daily_consumption - grid_import) * 100 when
\* daily_consumption > 0 and autarky = 0.0 otherwise; self_consumption
\* likewise over daily_generation; 1000, 400, 1200 give 60.0 and 50.0.
C4_DerivedStatistics ==
    (output # Unset /\ \A k \in 1..3 : Yields(input[k]))
    => LET daily_consumption == ValueOf(input[1])
           daily_generation == ValueOf(input[2])
           self_consumed == ValueOf(input[1]) - ValueOf(input[3])
       IN  /\ output # None
           /\ output.daily_consumption = daily_consumption
           /\ output.daily_generation = daily_generation
           /\ output.autarky[2] > 0
           /\ output.self_consumption[2] > 0
           /\ IF daily_consumption > 0
              THEN output.autarky[1] * daily_consumption
                       = self_consumed * 100 * output.autarky[2]
              ELSE output.autarky = <<0, 1>>
           /\ IF daily_generation > 0
              THEN output.self_consumption[1] * daily_generation
                       = self_consumed * 100 * output.self_consumption[2]
              ELSE output.self_consumption = <<0, 1>>
           /\ (daily_consumption = 1000 /\ daily_generation = 1200
               /\ self_consumed = 600)
              => (output.autarky = <<60, 1>> /\ output.self_consumption = <<50, 1>>)

\* a zero consumption, a negative generation and a grid import above the
\* consumption went through
C4_Witness ==
    /\ output # Unset
    /\ input = <<TableOf(<<0>>), TableOf(<<-400>>), TableOf(<<400>>)>>
    /\ output # None
    /\ output.autarky = <<0, 1>>

\* C5, query soft-failure: when one of the three queries raised,
\* calculate_daily_stats gives None, nothing is written and nothing raised by
\* that step, the raw point of the site is in the store, and the loop goes on
\* to the next site (or to the normal end of write_to_influx); while the site
\* just passed has None as its statistics, this call has written its raw
\* point and no statistics point for it.
C5_QuerySoftFailure ==
    /\ [][(pc = "derive" /\ \E k \in 1..3 : IsExc(results[k]))
          => (/\ daily_stats' = None
              /\ store' = store
              /\ written' = written
              /\ raised' = "none"
              /\ clients' = clients
              /\ RawPoint(data[write_idx]) \in store'
              /\ write_idx' = write_idx + 1
              /\ pc' = IF write_idx < Len(data) THEN "raw" ELSE "close")]_vars
    /\ []((pc \in {"raw", "close"} /\ daily_stats = None)
          => (/\ write_idx > 1
              /\ RawPoint(data[write_idx - 1]) \in written \cap store
              /\ StatsPoint(data[write_idx - 1]) \notin written))
    /\ [][(pc = "close" /\ raised = "none") => pc' = "finally"]_vars

\* the second query of the first site raised and the second site is now
\* being written
C5_Witness ==
    /\ pc = "calc"
    /\ write_idx = 2
    /\ IsExc(results[2])
    /\ ~IsExc(results[1])
    /\ daily_stats = None
    /\ raised = "none"
    /\ written = {RawPoint(data[1]), RawPoint(data[2])}

NoRecords(result) ==
    /\ ~IsExc(result)
    /\ result.tables # <<>> => result.tables[1].records = <<>>

\* C6, missing-data policy: when no query raises, a dictionary is returned,
\* and a query without records (no table, or a table without records) counts
\* as 0.0.
C6_MissingDataIsZero ==
    (output # Unset /\ \A k \in 1..3 : ~IsExc(input[k]))
    => /\ output # None
       /\ NoRecords(input[1]) => output.daily_consumption = 0
       /\ NoRecords(input[2]) => output.daily_generation = 0

\* C7, timestamp fallback: a text in the format gives its instant, every
\* other value gives the current time, and nothing is raised.
C7_TimestampFallback ==
    output # Unset
    => output = [seconds |-> IF input.type = "str" /\ input.format
                             THEN input.instant ELSE now]

\* C8, resource release: never two store clients or two HTTP sessions at
\* once, and none left open when an iteration starts.
C8_ResourcesReleased ==
    /\ clients <= 1
    /\ sessions <= 1
    /\ pc \in {"while", "fetch"} => (clients = 0 /\ sessions = 0)

\* C9, the statistics point follows its raw point: every anker_daily_stats
\* point of the store has the anker_power point of the same site_name and
\* time; while the queries run and while the statistics point is written,
\* this call has already written the raw point of the site.
C9_StatsFollowRaw ==
    /\ \A p \in store :
          p.measurement = "anker_daily_stats"
              => [p EXCEPT !.measurement = "anker_power"] \in store
    /\ pc \in {"calc", "derive", "stats"}
          => RawPoint(data[write_idx]) \in written \cap store
    /\ \A p \in written :
          p.measurement = "anker_daily_stats"
              => [p EXCEPT !.measurement = "anker_power"] \in written

\* the statistics point of the last of several sites has just been written,
\* in an iteration that follows a failed one (its client is still open)
C9_Witness ==
    /\ pc = "close"
    /\ raised = "none"
    /\ StatsPoint(data[Len(data)]) \in written
    /\ Len(data) > 1
    /\ clients > 1

\* C10, write-error propagation: once a write has raised, the worker only
\* closes the client, handles the error, sleeps and starts the next
\* iteration, the store stays as it is until then, and at the close no point
\* of a later site has been written; no step removes a point; an iteration
\* starts after as many sleeps of `delay` seconds as iterations before it,
\* and the loop ends after max_iterations - 1 sleeps.
C10_WriteErrorPropagates ==
    /\ [](raised = "WriteError"
            => pc \in {"close", "except", "finally", "sleep", "while", "done"})
    /\ [][raised = "WriteError" => store' = store]_vars
    /\ [][store \subseteq store']_vars
    /\ []((raised = "WriteError" /\ pc = "close")
            => (/\ written \subseteq PointsOf(SubSeq(data, 1, write_idx))
                /\ written \subseteq store))
    /\ [][(raised = "WriteError" /\ pc = "close") => pc' = "except"]_vars
    /\ [][(raised = "WriteError" /\ pc = "except") => pc' = "finally"]_vars
    /\ [](pc = "fetch" => (sleeps = iterations /\ now = delay * iterations))
    /\ [](pc = "done" => sleeps = max_iterations - 1)

\* the statistics write of the first site raised: its raw point stays and the
\* second site is not written
C10_Witness ==
    /\ pc = "close"
    /\ raised = "WriteError"
    /\ write_idx = 1
    /\ Len(data) > 1
    /\ written = {RawPoint(data[1])}
    /\ iterations = max_iterations - 1

====
